---- MODULE Spec2Model ----
(***************************************************************************)
(* cista: serialization of an object graph into one contiguous buffer in   *)
(* which every pointer is stored as an offset, and the symmetric           *)
(* deserialization; the file adapters write / read / read_mmap of          *)
(* include/cista/io.h on top of them.                                      *)
(*                                                                         *)
(* The buffer is a sequence of cells.  The object graph is the README's    *)
(* example reduced to one node type:                                       *)
(*   graph { vector<unique_ptr<node>> nodes_; scalar next_node_id_; }      *)
(*   node  { node* next_; unique_ptr<node> child_; string name_; }         *)
(* and a pointer-free root type "pod".                                     *)
(***************************************************************************)
EXTENDS Integers, Sequences, FiniteSets, TLC

\* ------------------------------------------------------------ bounds
MaxNodes == 2
MaxVec == 2
MaxStr == 1
MaxTamper == 3
MaxAddr == 5
MaxSize == 3
MaxWrites == 3
MaxEmit == 2

\* ------------------------------------------------------ mode flags
WITH_STATIC_VERSION == "WITH_STATIC_VERSION"
WITH_INTEGRITY == "WITH_INTEGRITY"
UNCHECKED == "UNCHECKED"

\* Default template argument Mode of each file adapter.
WriteDefaultModeNone == {}
WriteDefaultMode == {WITH_STATIC_VERSION, WITH_INTEGRITY}
ReadDefaultMode == {WITH_STATIC_VERSION, WITH_INTEGRITY}
ReadMmapDefaultMode == {WITH_STATIC_VERSION, WITH_INTEGRITY}

\* Modes a caller passes explicitly (producer and consumer pass the same).
ExplicitModes == {{}, {WITH_STATIC_VERSION}, {WITH_INTEGRITY}, {UNCHECKED}}

\* mmap protection of each adapter's mapping; OWNED is read()'s own copy.
WriteProtection == "WRITE"
ReadMmapProtectionWrite == "WRITE"
ReadMmapProtection == "READ"

\* --------------------------------------------------- layout of types
Nodes == 1..MaxNodes
NullSrc == 0
RootTypes == {"graph", "pod"}

RootSize == 4
RootAlign == 2
NodeSize == 4
NodeAlign == 2
HandleSize == 1
HandleAlign == 1
CharAlign == 1
\* field offsets inside node and graph
NextOff == 0
ChildOff == 1
NameOff == 2
VecOff == 0
ScalarOff == 3

\* Envelope: leading type hash, trailing content hash.
VersionCells == 2
HashCells == 1
HashMod == 251
HashPrime == 7
HashSeed == 11
TypeHash(t) == IF t = "graph" THEN 41 ELSE 43

\* The bits of a source address, as a raw byte copy leaves them in a slot.
RawBase == 100
SrcAddr(n) == IF n = NullSrc THEN 0 ELSE RawBase + n
StrAddr(n) == RawBase + MaxNodes + 1 + n
IsRaw(c) == c >= RawBase

\* Address the buffer is loaded at for deserialization; 0 is the null pointer.
Base == 32
NullPtr == 0

\* ------------------------------------------------------ offset pointer
\* assign-from-address: a - &self, 0 for null
OptrAssignNoNull(p, a) == a - p
OptrAssign(p, a) == IF a = NullPtr THEN 0 ELSE a - p

\* resolve: null when the delta is 0, &self + delta otherwise
OptrResolve(p, d) == IF d = 0 THEN NullPtr ELSE p + d

\* copy to a slot at address q: the delta is recomputed
OptrCopyDelta(p, d, q) == d
OptrCopy(p, d, q) == OptrAssign(q, OptrResolve(p, d))

\* equality: by resolved target
OptrEq(p1, d1, p2, d2) == OptrResolve(p1, d1) = OptrResolve(p2, d2)

\* ------------------------------------------------ serialization context
AlignUp(n, a) == IF a <= 1 THEN n ELSE ((n + a - 1) \div a) * a

Zeros(k) == [i \in 1..k |-> 0]

\* write(ptr, size, alignment): append at the aligned end, return the offset
CtxWriteUnaligned(b, bytes, a) == [off |-> Len(b), buf |-> b \o bytes]
CtxWrite(b, bytes, a) ==
  LET off == AlignUp(Len(b), a)
  IN [off |-> off, buf |-> b \o Zeros(off - Len(b)) \o bytes]

\* A pointer stored in the slot at offset s whose target was written to offset
\* o becomes that offset: ctx.write(pos + offsetof(string, h_.ptr_), start).
PtrToOffsetSelfRelative(s, o) == o - s
PtrToOffset(s, o) == o

\* write(pos, val): overwrite in place, no append
CtxOverwrite(b, pos, val) == [b EXCEPT ![pos + 1] = val]

\* content hash of the payload cells
RECURSIVE HashFrom(_, _)
HashFrom(h, s) ==
  IF s = <<>> THEN h
  ELSE HashFrom(((h + (Head(s) % HashMod)) * HashPrime) % HashMod, Tail(s))
ContentHash(s) == HashFrom(HashSeed, s)

\* the leading cells of a buffer whose root type is T
VersionHeader(T) == <<TypeHash(T)>> \o Zeros(VersionCells - 1)

RootOffset(m) == IF WITH_STATIC_VERSION \in m THEN VersionCells ELSE 0

PayloadOf(b, m) ==
  LET last == IF WITH_INTEGRITY \in m THEN Len(b) - HashCells ELSE Len(b)
  IN IF last < RootOffset(m) THEN <<>> ELSE SubSeq(b, RootOffset(m) + 1, last)

\* ------------------------------------------------------------ the graph
\* g.vec: the unique handles of nodes_ (0 = null); per node its raw pointer
\* next_, its unique handle child_ and its name_.
Name(n, len) == [i \in 1..len |-> 64 + n]

SeqsUpTo(S, k) == UNION {[1..n -> S] : n \in 0..k}

RECURSIVE OwnedClosure(_, _, _)
OwnedClosure(S, child, k) ==
  IF k = 0 THEN S
  ELSE OwnedClosure(S \cup ({child[n] : n \in S} \ {NullSrc}), child, k - 1)

Range(s) == {s[i] : i \in DOMAIN s}

Owned(gr) == OwnedClosure(Range(gr.vec) \ {NullSrc}, gr.child, MaxNodes)

\* Every raw pointer targets an object some reachable unique handle owns;
\* objects no handle reaches are not part of the graph.
Graphs ==
  {gr \in [vec : SeqsUpTo(Nodes \cup {NullSrc}, MaxVec),
           next : [Nodes -> Nodes \cup {NullSrc}],
           child : [Nodes -> Nodes \cup {NullSrc}],
           len : [Nodes -> 0..MaxStr]] :
     \A n \in Nodes :
        IF n \in Owned(gr)
        THEN gr.next[n] \in Owned(gr) \cup {NullSrc}
        ELSE gr.next[n] = NullSrc /\ gr.child[n] = NullSrc /\ gr.len[n] = 0}

EmptyGraph ==
  [vec |-> <<>>, next |-> [n \in Nodes |-> NullSrc],
   child |-> [n \in Nodes |-> NullSrc], len |-> [n \in Nodes |-> 0]]

RawRoot(rt, gr) ==
  IF rt = "graph"
  THEN <<(IF gr.vec = <<>> THEN 0 ELSE RawBase), Len(gr.vec), Len(gr.vec), 9>>
  ELSE <<5, 6, 7, 8>>

RawNode(gr, n) ==
  <<SrcAddr(gr.next[n]), SrcAddr(gr.child[n]),
    (IF gr.len[n] = 0 THEN 0 ELSE StrAddr(n)), gr.len[n]>>

RawHandles(gr) == [i \in 1..Len(gr.vec) |-> SrcAddr(gr.vec[i])]

NotVisited == -1

VARIABLES
  g, rootType, useDefaults, wmode, rmode, expectType,
  buf, offsets_, pending_, stack, pc, err,
  lastWrite, emitCount, slotTarget, forwardRefs, objs,
  file, file0, mem, prot, adapter, tampered, dstack, dvisited, resolved, lastCheck,
  oslot, odelta, oaddr, oslot2, odelta2

serVars == <<buf, offsets_, pending_, stack, lastWrite, emitCount, slotTarget, forwardRefs, objs>>
inVars == <<g, rootType, useDefaults, wmode, rmode, expectType>>
ioVars == <<file, file0, mem, prot, adapter, tampered, dstack, dvisited, resolved, lastCheck>>
optrVars == <<oslot, odelta, oaddr, oslot2, odelta2>>
vars == <<inVars, serVars, pc, err, ioVars, optrVars>>

\* ------------------------------------------------------------ serialize
Task(k, pos, t, aux) == [k |-> k, pos |-> pos, t |-> t, aux |-> aux]

NoWrite == [prev |-> 0, size |-> 0, align |-> 0, off |-> 0, before |-> <<>>, after |-> <<>>, bytes |-> <<>>]

Written(b, bytes, a, w) ==
  [prev |-> Len(b), size |-> Len(bytes), align |-> a, off |-> w.off,
   before |-> b, after |-> w.buf, bytes |-> bytes]

\* offsets_[t] = o, recorded when the pointee's bytes are emitted and before
\* its fields are serialized
RecordNever(ofs, t, o) == ofs
RecordOffset(ofs, t, o) == [ofs EXCEPT ![t] = o]

\* What a unique handle with source pointee t does: a null handle is written as
\* 0, a pointee not yet emitted is emitted, a pointee some other unique handle
\* already emitted is a graph-shape violation.
UniqueCaseAlwaysEmit(ofs, t) == IF t = NullSrc THEN "null" ELSE "emit"
UniqueCase(ofs, t) ==
  IF t = NullSrc THEN "null"
  ELSE IF ofs[t] = NotVisited THEN "emit"
  ELSE "graph_shape"

\* fields of a node emitted at offset o, in declaration order
NodeFields(gr, n, o) ==
  <<Task("optr", o + NextOff, gr.next[n], 0),
    Task("unique", o + ChildOff, gr.child[n], 0),
    Task("string", o + NameOff, n, 0)>>

\* write<Mode>(path, w): map the file for writing and serialize into it.
\* serialize: optional type hash, reserve the root, then traverse its fields.
write ==
  /\ pc = "start"
  /\ LET b0 == IF WITH_STATIC_VERSION \in wmode
               THEN VersionHeader(rootType) ELSE <<>>
         raw == RawRoot(rootType, g)
         w == CtxWrite(b0, raw, RootAlign)
     IN /\ buf' = w.buf
        /\ lastWrite' = Written(b0, raw, RootAlign, w)
        /\ stack' = IF rootType = "graph" THEN <<Task("vec", w.off + VecOff, 0, 0)>> ELSE <<>>
  /\ prot' = WriteProtection
  /\ pc' = "traverse"
  /\ UNCHANGED <<inVars, offsets_, pending_, emitCount, slotTarget, forwardRefs, objs, err,
                 file, file0, mem, adapter, tampered, dstack, dvisited, resolved, lastCheck, optrVars>>

Top == Head(stack)
ioRest == <<inVars, err, ioVars, optrVars>>

\* vector: empty -> {null, 0, 0}; else reserve the block of elements, serialize
\* each element in it, then write the header
SerializeVec ==
  /\ pc = "traverse" /\ stack # <<>> /\ Top.k = "vec"
  /\ LET s == Top.pos
         n == Len(g.vec)
     IN IF n = 0
        THEN /\ buf' = CtxOverwrite(CtxOverwrite(CtxOverwrite(buf, s, 0), s + 1, 0), s + 2, 0)
             /\ stack' = Tail(stack)
             /\ UNCHANGED lastWrite
        ELSE LET w == CtxWrite(buf, RawHandles(g), HandleAlign)
             IN /\ buf' = w.buf
                /\ lastWrite' = Written(buf, RawHandles(g), HandleAlign, w)
                /\ stack' = [i \in 1..n |-> Task("unique", w.off + (i - 1) * HandleSize, g.vec[i], 0)]
                            \o <<Task("vechdr", s, w.off, n)>> \o Tail(stack)
  /\ UNCHANGED <<offsets_, pending_, emitCount, slotTarget, forwardRefs, objs, pc, ioRest>>

SerializeVecHeader ==
  /\ pc = "traverse" /\ stack # <<>> /\ Top.k = "vechdr"
  /\ LET s == Top.pos
     IN buf' = CtxOverwrite(CtxOverwrite(CtxOverwrite(buf, s, PtrToOffset(s, Top.t)), s + 1, Top.aux), s + 2, Top.aux)
  /\ stack' = Tail(stack)
  /\ UNCHANGED <<offsets_, pending_, emitCount, slotTarget, forwardRefs, objs, lastWrite, pc, ioRest>>

\* unique handle: null -> 0; pointee not yet emitted -> emit it, record its
\* offset, patch the slot, serialize its fields; pointee already emitted ->
\* graph-shape violation
SerializeUnique ==
  /\ pc = "traverse" /\ stack # <<>> /\ Top.k = "unique"
  /\ LET s == Top.pos
         t == Top.t
     IN /\ slotTarget' = slotTarget \cup {[pos |-> s, t |-> t, k |-> "unique"]}
        /\ IF UniqueCase(offsets_, t) = "null"
           THEN /\ buf' = CtxOverwrite(buf, s, 0)
                /\ stack' = Tail(stack)
                /\ UNCHANGED <<offsets_, emitCount, lastWrite, pc, err>>
           ELSE IF UniqueCase(offsets_, t) = "emit"
           THEN /\ emitCount[t] < MaxEmit
                /\ LET w == CtxWrite(buf, RawNode(g, t), NodeAlign)
                   IN /\ buf' = CtxOverwrite(w.buf, s, PtrToOffset(s, w.off))
                      /\ lastWrite' = Written(buf, RawNode(g, t), NodeAlign, w)
                      /\ offsets_' = RecordOffset(offsets_, t, w.off)
                      /\ emitCount' = [emitCount EXCEPT ![t] = @ + 1]
                      /\ stack' = NodeFields(g, t, w.off) \o Tail(stack)
                /\ UNCHANGED <<pc, err>>
           ELSE /\ err' = "graph_shape"
                /\ pc' = "failed"
                /\ UNCHANGED <<buf, stack, offsets_, emitCount, lastWrite>>
  /\ UNCHANGED <<pending_, forwardRefs, objs, inVars, ioVars, optrVars>>

\* raw pointer: null -> 0; target emitted at o -> its offset; else a pending entry
\* and the slot keeps its placeholder
SerializePtr ==
  /\ pc = "traverse" /\ stack # <<>> /\ Top.k = "optr"
  /\ LET s == Top.pos
         t == Top.t
     IN /\ slotTarget' = slotTarget \cup {[pos |-> s, t |-> t, k |-> "optr"]}
        /\ IF t = NullSrc
           THEN buf' = CtxOverwrite(buf, s, 0) /\ UNCHANGED <<pending_, forwardRefs>>
           ELSE IF offsets_[t] # NotVisited
           THEN buf' = CtxOverwrite(buf, s, PtrToOffset(s, offsets_[t])) /\ UNCHANGED <<pending_, forwardRefs>>
           ELSE /\ pending_' = Append(pending_, [origin_ptr_ |-> t, pos_ |-> s])
                /\ forwardRefs' = forwardRefs \cup {[origin_ptr_ |-> t, pos_ |-> s]}
                /\ UNCHANGED buf
  /\ stack' = Tail(stack)
  /\ UNCHANGED <<offsets_, emitCount, lastWrite, objs, pc, ioRest>>

\* string: empty -> {null, 0}; else append the payload (byte alignment) and
\* write {payload offset, size}
SerializeString ==
  /\ pc = "traverse" /\ stack # <<>> /\ Top.k = "string"
  /\ LET s == Top.pos
         str == Name(Top.t, g.len[Top.t])
     IN IF str = <<>>
        THEN /\ buf' = CtxOverwrite(CtxOverwrite(buf, s, 0), s + 1, 0)
             /\ UNCHANGED lastWrite
        ELSE LET w == CtxWrite(buf, str, CharAlign)
             IN /\ buf' = CtxOverwrite(CtxOverwrite(w.buf, s, PtrToOffset(s, w.off)), s + 1, Len(str))
                /\ lastWrite' = Written(buf, str, CharAlign, w)
  /\ stack' = Tail(stack)
  /\ UNCHANGED <<offsets_, pending_, emitCount, slotTarget, forwardRefs, objs, pc, ioRest>>

\* the root traversal has completed
TraversalDone ==
  /\ pc = "traverse" /\ stack = <<>>
  /\ pc' = "drain"
  /\ UNCHANGED <<inVars, serVars, err, ioVars, optrVars>>

\* drain pending_: look the origin up in offsets_ and overwrite the slot
ResolvePending ==
  /\ pc = "drain" /\ pending_ # <<>>
  /\ LET p == Head(pending_)
     IN IF offsets_[p.origin_ptr_] # NotVisited
        THEN /\ buf' = CtxOverwrite(buf, p.pos_, PtrToOffset(p.pos_, offsets_[p.origin_ptr_]))
             /\ pending_' = Tail(pending_)
             /\ UNCHANGED <<pc, err>>
        ELSE /\ err' = "dangling"   \* an origin no unique handle emitted
             /\ pc' = "failed"
             /\ UNCHANGED <<buf, pending_>>
  /\ UNCHANGED <<offsets_, stack, lastWrite, emitCount, slotTarget, forwardRefs, objs, inVars, ioVars, optrVars>>

\* after the drain: optionally append the content hash; the file holds the buffer
Finish ==
  /\ pc = "drain" /\ pending_ = <<>>
  /\ buf' = IF WITH_INTEGRITY \in wmode
            THEN buf \o <<ContentHash(PayloadOf(buf, wmode \ {WITH_INTEGRITY}))>>
            ELSE buf
  /\ file' = buf'
  /\ pc' = "serialized"
  /\ UNCHANGED <<inVars, offsets_, pending_, stack, lastWrite, emitCount, slotTarget, forwardRefs, objs, err,
                 file0, mem, prot, adapter, tampered, dstack, dvisited, resolved, lastCheck, optrVars>>

SerNext ==
  \/ write
  \/ SerializeVec
  \/ SerializeVecHeader
  \/ SerializeUnique
  \/ SerializePtr
  \/ SerializeString
  \/ TraversalDone
  \/ ResolvePending
  \/ Finish

NoCheck == [ptr |-> 0, n |-> 0, ok |-> TRUE]

NoOptr == oslot = 0 /\ odelta = 0 /\ oaddr = 0 /\ oslot2 = 0 /\ odelta2 = 0

InitAt(p) ==
  /\ buf = <<>>
  /\ offsets_ = [n \in Nodes |-> NotVisited]
  /\ pending_ = <<>>
  /\ stack = <<>>
  /\ pc = p
  /\ err = "none"
  /\ lastWrite = NoWrite
  /\ emitCount = [n \in Nodes |-> 0]
  /\ slotTarget = {}
  /\ forwardRefs = {}
  /\ objs = <<>>
  /\ file = <<>> /\ file0 = <<>> /\ mem = <<>>
  /\ prot = "NONE" /\ adapter = "none" /\ tampered = FALSE
  /\ dstack = <<>> /\ dvisited = {} /\ resolved = {}
  /\ lastCheck = NoCheck

InitModes ==
  /\ useDefaults \in BOOLEAN
  /\ IF useDefaults
     THEN wmode = WriteDefaultMode /\ rmode \in {ReadDefaultMode, ReadMmapDefaultMode}
     ELSE wmode \in ExplicitModes /\ rmode = wmode

InitSer ==
  /\ InitAt("start")
  /\ NoOptr
  /\ InitModes
  /\ rootType \in RootTypes
  /\ g \in (IF rootType = "graph" THEN Graphs ELSE {EmptyGraph})
  /\ expectType = rootType

SpecSer == InitSer /\ [][SerNext]_vars

\* ---------------------------------------------------------- the file
\* One cell of the stored file is changed by delta before it is read (a
\* tampered or corrupted file).  UNCHECKED data comes from trusted sources only.
Tamper ==
  /\ pc = "serialized" /\ ~tampered
  /\ UNCHECKED \notin rmode
  /\ \E i \in 1..Len(file), d \in (-MaxTamper..MaxTamper) \ {0} :
        file' = [file EXCEPT ![i] = @ + d]
  /\ tampered' = TRUE
  /\ UNCHANGED <<inVars, serVars, pc, err, file0, mem, prot, adapter, dstack, dvisited,
                 resolved, lastCheck, optrVars>>

\* The root type T the reader asks for: any type when the data is checked.
ReaderTypes == IF UNCHECKED \in rmode \/ tampered THEN {rootType} ELSE RootTypes

\* read<T, Mode>(path): the file's content in an owned buffer, deserialized
read ==
  /\ pc = "serialized"
  /\ adapter' = "read"
  /\ mem' = file
  /\ prot' = "OWNED"
  /\ file0' = file
  /\ expectType' \in ReaderTypes
  /\ pc' = "validate"
  /\ UNCHANGED <<g, rootType, useDefaults, wmode, rmode, serVars, err, file, tampered,
                 dstack, dvisited, resolved, lastCheck, optrVars>>

\* read_mmap<T, Mode>(path): the file mapped with protection READ, deserialized
\* in the mapping
read_mmap ==
  /\ pc = "serialized"
  /\ adapter' = "read_mmap"
  /\ mem' = file
  /\ prot' = ReadMmapProtection
  /\ file0' = file
  /\ expectType' \in ReaderTypes
  /\ pc' = "validate"
  /\ UNCHANGED <<g, rootType, useDefaults, wmode, rmode, serVars, err, file, tampered,
                 dstack, dvisited, resolved, lastCheck, optrVars>>

\* ------------------------------------------------ deserialization context
\* deserialize(ptr): the stored offset back to a pointer by adding the base
OffsetToPtrNoBase(v) == IF v = 0 THEN NullPtr ELSE v
OffsetToPtr(v) == IF v = 0 THEN NullPtr ELSE Base + v

\* check(el, size): at least size bytes at el lie inside the buffer
CheckUpperOnly(ptr, n, size) == ptr + n <= Base + size
CheckOffByOne(ptr, n, size) == ptr >= Base /\ ptr + n <= Base + size + 1
Check(ptr, n, size) == ptr >= Base /\ ptr + n <= Base + size

Checked == UNCHECKED \notin rmode

\* ----------------------------------------------------------- envelope
VersionOk(b, m, T) ==
  WITH_STATIC_VERSION \in m =>
     (Len(b) >= VersionCells /\ SubSeq(b, 1, VersionCells) = VersionHeader(T))

IntegrityOk(b, m) ==
  WITH_INTEGRITY \in m =>
     /\ Len(b) >= RootOffset(m) + HashCells
     /\ b[Len(b)] = ContentHash(PayloadOf(b, m))

DTask(k, pos) == [k |-> k, pos |-> pos]

RootFieldsD(T, o) == IF T = "graph" THEN <<DTask("vec", o + VecOff)>> ELSE <<>>

NodeFieldsD(o) ==
  <<DTask("optr", o + NextOff), DTask("unique", o + ChildOff), DTask("string", o + NameOff)>>

\* deserialize<T, Mode>: the envelope first (type hash, then content hash),
\* then the root is checked and the traversal starts
EnvelopeSkipped(b, m, T) == "none"
EnvelopeError(b, m, T) ==
  IF ~VersionOk(b, m, T) THEN "version_mismatch"
  ELSE IF ~IntegrityOk(b, m) THEN "integrity_mismatch"
  ELSE "none"

Validate ==
  /\ pc = "validate"
  /\ LET e == EnvelopeError(mem, rmode, expectType)
         root == Base + RootOffset(rmode)
     IN IF e # "none"
        THEN /\ err' = e /\ pc' = "rejected"
             /\ UNCHANGED <<dstack, lastCheck>>
        ELSE IF Checked /\ ~Check(root, RootSize, Len(mem))
        THEN /\ err' = "out_of_bounds" /\ pc' = "rejected"
             /\ lastCheck' = [ptr |-> root, n |-> RootSize, ok |-> FALSE]
             /\ UNCHANGED dstack
        ELSE /\ pc' = "deser"
             /\ dstack' = RootFieldsD(expectType, RootOffset(rmode))
             /\ lastCheck' = IF Checked THEN [ptr |-> root, n |-> RootSize, ok |-> TRUE]
                             ELSE lastCheck
             /\ UNCHANGED err
  /\ UNCHANGED <<inVars, serVars, file, file0, mem, prot, adapter, tampered, dvisited,
                 resolved, optrVars>>

\* ---------------------------------------------------------- deserialize
DTop == Head(dstack)

\* A store into the buffer: a mapping with protection READ faults; a mapping
\* with protection WRITE is shared with the file; an owned buffer is private.
Store(pos, val) ==
  IF prot = "READ"
  THEN /\ pc' = "fault" /\ err' = "segv"
       /\ UNCHANGED <<mem, file>>
  ELSE /\ mem' = [mem EXCEPT ![pos + 1] = val]
       /\ file' = IF prot = "WRITE" THEN [file EXCEPT ![pos + 1] = val] ELSE file
       /\ UNCHANGED <<pc, err>>

Reject(ptr, n) ==
  /\ err' = "out_of_bounds" /\ pc' = "rejected"
  /\ lastCheck' = [ptr |-> ptr, n |-> n, ok |-> FALSE]
  /\ UNCHANGED <<mem, file, dstack, dvisited, resolved>>

Passed(ptr, n) ==
  lastCheck' = IF Checked THEN [ptr |-> ptr, n |-> n, ok |-> TRUE] ELSE lastCheck

\* The slot at pos holds v: convert it, check n bytes at the result, store the
\* pointer in the slot and go on with the tasks more.
Convert(pos, v, n, more, seen) ==
  LET ptr == OffsetToPtr(v)
  IN IF Checked /\ ~Check(ptr, n, Len(mem))
     THEN Reject(ptr, n)
     ELSE /\ Store(pos, ptr)
          /\ Passed(ptr, n)
          /\ IF prot = "READ"
             THEN UNCHANGED <<dstack, dvisited, resolved>>
             ELSE /\ dstack' = more \o Tail(dstack)
                  /\ dvisited' = dvisited \cup seen
                  /\ resolved' = resolved \cup {[slot |-> pos, ptr |-> ptr, n |-> n]}

\* A null slot: stored as the null pointer, nothing to check or to follow.
ConvertNull(pos) ==
  /\ Store(pos, NullPtr)
  /\ IF prot = "READ" THEN UNCHANGED dstack ELSE dstack' = Tail(dstack)
  /\ UNCHANGED <<dvisited, resolved, lastCheck>>

dRest == <<inVars, serVars, file0, prot, adapter, tampered, optrVars>>

DeserializeUnique ==
  /\ pc = "deser" /\ dstack # <<>> /\ DTop.k = "unique"
  /\ LET pos == DTop.pos
         v == mem[pos + 1]
     IN IF v = 0 THEN ConvertNull(pos)
        ELSE Convert(pos, v, NodeSize,
                     IF v \in dvisited THEN <<>> ELSE NodeFieldsD(v), {v})
  /\ UNCHANGED dRest

DeserializePtr ==
  /\ pc = "deser" /\ dstack # <<>> /\ DTop.k = "optr"
  /\ LET pos == DTop.pos
         v == mem[pos + 1]
     IN IF v = 0 THEN ConvertNull(pos)
        ELSE Convert(pos, v, NodeSize, <<>>, {})
  /\ UNCHANGED dRest

\* The size of a container is unsigned: a negative cell is a huge size.
Huge == 1000
SizeOf(c) == IF c < 0 THEN Huge ELSE c

DeserializeString ==
  /\ pc = "deser" /\ dstack # <<>> /\ DTop.k = "string"
  /\ LET pos == DTop.pos
         v == mem[pos + 1]
         n == SizeOf(mem[pos + 2])
     IN IF v = 0 /\ n = 0 THEN ConvertNull(pos)
        ELSE Convert(pos, v, n, <<>>, {})
  /\ UNCHANGED dRest

DeserializeVec ==
  /\ pc = "deser" /\ dstack # <<>> /\ DTop.k = "vec"
  /\ LET pos == DTop.pos
         v == mem[pos + 1]
         n == SizeOf(mem[pos + 2])
     IN IF v = 0 /\ n = 0 THEN ConvertNull(pos)
        ELSE Convert(pos, v, n * HandleSize,
                     [i \in 1..(IF n >= Huge THEN 0 ELSE n) |-> DTask("unique", v + (i - 1) * HandleSize)], {})
  /\ UNCHANGED dRest

\* the traversal is over: the typed pointer to the root is returned
DeserializeDone ==
  /\ pc = "deser" /\ dstack = <<>>
  /\ pc' = "done"
  /\ UNCHANGED <<inVars, serVars, err, ioVars, optrVars>>

IoNext ==
  \/ Tamper
  \/ read
  \/ read_mmap
  \/ Validate
  \/ DeserializeVec
  \/ DeserializeUnique
  \/ DeserializePtr
  \/ DeserializeString
  \/ DeserializeDone

Init == InitSer
Next == SerNext \/ IoNext
Spec == Init /\ [][Next]_vars

SpecSerFair == InitSer /\ [][SerNext]_vars /\ WF_vars(SerNext)

\* ------------------------------------- the context used by custom serializers
\* A custom serialize function calls ctx.write(ptr, size, alignment) with the
\* sizes and alignments of its own types; alignment defaults to 0.
Alignments == {0, 1, 2, 4}

CtxWriteCall ==
  /\ pc = "ctx" /\ Len(objs) < MaxWrites
  /\ \E n \in 0..MaxSize, a \in Alignments :
        LET bytes == [i \in 1..n |-> 10 * a + i]
            w == CtxWrite(buf, bytes, a)
        IN /\ buf' = w.buf
           /\ lastWrite' = Written(buf, bytes, a, w)
           /\ objs' = Append(objs, [off |-> w.off, align |-> a, bytes |-> bytes])
  /\ UNCHANGED <<inVars, offsets_, pending_, stack, emitCount, slotTarget, forwardRefs,
                 pc, err, ioVars, optrVars>>

InitWrite ==
  /\ InitAt("ctx")
  /\ NoOptr
  /\ useDefaults = TRUE /\ wmode = WriteDefaultMode /\ rmode = ReadDefaultMode
  /\ rootType = "pod" /\ g = EmptyGraph /\ expectType = "pod"

WriteNext == CtxWriteCall
SpecWrite == InitWrite /\ [][WriteNext]_vars

\* ------------------------------------------------- offset pointer objects
\* An offset pointer lives at address oslot and holds odelta; oaddr is the
\* address last assigned to it; (oslot2, odelta2) is a copy of it elsewhere.
Addrs == 1..MaxAddr

OptrAssignStep ==
  /\ pc = "optr"
  /\ \E a \in Addrs \cup {NullPtr} :
        /\ odelta' = OptrAssign(oslot, a)
        /\ oaddr' = a
  /\ oslot2' = 0 /\ odelta2' = 0
  /\ UNCHANGED <<inVars, serVars, pc, err, ioVars, oslot>>

OptrCopyStep ==
  /\ pc = "optr"
  /\ \E q \in Addrs :
        /\ oslot2' = q
        /\ odelta2' = OptrCopy(oslot, odelta, q)
  /\ UNCHANGED <<inVars, serVars, pc, err, ioVars, oslot, odelta, oaddr>>

InitPtr ==
  /\ InitAt("optr")
  /\ oslot \in Addrs /\ odelta = 0 /\ oaddr = NullPtr /\ oslot2 = 0 /\ odelta2 = 0
  /\ useDefaults = TRUE /\ wmode = WriteDefaultMode /\ rmode = ReadDefaultMode
  /\ rootType = "pod" /\ g = EmptyGraph /\ expectType = "pod"

PtrNext == OptrAssignStep \/ OptrCopyStep
SpecPtr == InitPtr /\ [][PtrNext]_vars

\* ================================================================ claims

\* C5: ctx.write(ptr, size, alignment) is append-only and aligned: the offset it
\* returns is the first offset >= the buffer's previous size that is a multiple
\* of the alignment (the previous size itself for the default alignment 0, which
\* asks for none), the size bytes are placed exactly there, the buffer grows to
\* offset + size, and no byte below the previous size changes; so after any
\* sequence of writes every emitted object still lies, unchanged, at an offset
\* that is a multiple of its alignment.
WriteAppendsAligned ==
  LET w == lastWrite
      a == IF w.align = 0 THEN 1 ELSE w.align
  IN /\ w.off >= w.prev
     /\ w.off % a = 0
     /\ \A k \in w.prev..w.off : k % a = 0 => k = w.off
     /\ Len(w.after) = w.off + w.size
     /\ \A i \in 1..w.size : w.after[w.off + i] = w.bytes[i]
     /\ \A i \in 1..w.prev : w.after[i] = w.before[i]
     /\ buf = w.after
     /\ \A j \in 1..Len(objs) :
          /\ objs[j].align >= 1 => objs[j].off % objs[j].align = 0
          /\ \A i \in 1..Len(objs[j].bytes) : buf[objs[j].off + i] = objs[j].bytes[i]

\* C5 witness: a write had to skip padding to reach its alignment.
WriteSkippedPadding ==
  /\ pc = "ctx"
  /\ lastWrite.align = 4 /\ lastWrite.size > 0
  /\ lastWrite.off > lastWrite.prev /\ lastWrite.prev > 0
  /\ Len(objs) = MaxWrites

\* C8 (as stated): assigning address a to the offset pointer at p stores a - p,
\* or 0 for null; resolve gives null exactly for delta 0 and p + delta otherwise;
\* resolve(assign(a)) = a for every a other than p, assign(p) reads as null; a
\* copy in a slot at a different address resolves to the same target as the
\* original, and equality compares the targets, not the deltas.
OptrEncodingCopyAlwaysPreserves ==
  pc = "optr" =>
    /\ odelta = (IF oaddr = NullPtr THEN 0 ELSE oaddr - oslot)
    /\ (OptrResolve(oslot, odelta) = NullPtr) <=> (odelta = 0)
    /\ odelta # 0 => OptrResolve(oslot, odelta) = oslot + odelta
    /\ oaddr # oslot => OptrResolve(oslot, odelta) = oaddr
    /\ oaddr = oslot => OptrResolve(oslot, odelta) = NullPtr
    /\ (oslot2 # 0 /\ oslot2 # oslot) =>
          /\ OptrResolve(oslot2, odelta2) = OptrResolve(oslot, odelta)
          /\ OptrEq(oslot, odelta, oslot2, odelta2)

\* C8 (amended): the same, except that the copy keeps the target only when the
\* new slot is not the target's own address: a copy placed at its target holds
\* delta 0 and reads as null.
OptrEncoding ==
  pc = "optr" =>
    /\ odelta = (IF oaddr = NullPtr THEN 0 ELSE oaddr - oslot)
    /\ (OptrResolve(oslot, odelta) = NullPtr) <=> (odelta = 0)
    /\ odelta # 0 => OptrResolve(oslot, odelta) = oslot + odelta
    /\ oaddr # oslot => OptrResolve(oslot, odelta) = oaddr
    /\ oaddr = oslot => OptrResolve(oslot, odelta) = NullPtr
    /\ (oslot2 # 0 /\ oslot2 # oslot) =>
          IF oslot2 = OptrResolve(oslot, odelta)
          THEN odelta2 = 0 /\ OptrResolve(oslot2, odelta2) = NullPtr
          ELSE /\ OptrResolve(oslot2, odelta2) = OptrResolve(oslot, odelta)
               /\ OptrEq(oslot, odelta, oslot2, odelta2)
               /\ (odelta # 0 => odelta2 # odelta)

\* C8 witness: a non-null pointer copied to another slot, with another delta.
OptrCopiedElsewhere ==
  /\ pc = "optr"
  /\ odelta # 0 /\ oslot2 # 0 /\ oslot2 # oslot
  /\ odelta2 # 0 /\ odelta2 # odelta
  /\ OptrResolve(oslot2, odelta2) = oaddr

\* ---- serialization

Produced == pc \in {"serialized", "validate", "deser", "done", "rejected", "fault"}

\* the pointer slots serialized so far whose source pointer is not null
PtrSlots == {x \in slotTarget : x.t # NullSrc}

\* C2: in every buffer serialize produces, each source object reachable from
\* the root was written exactly once (and never more than once on the way);
\* every pointer slot holds a value that converts to the one offset offsets_
\* records for its source target, so slots with the same target agree and slots
\* with different targets differ.
SingleEmissionAndAliasing ==
  /\ \A n \in Nodes : emitCount[n] <= 1
  /\ Produced =>
       /\ \A n \in Nodes : emitCount[n] = (IF n \in Owned(g) THEN 1 ELSE 0)
       /\ \A x \in PtrSlots :
            /\ offsets_[x.t] # NotVisited
            /\ OffsetToPtr(buf[x.pos + 1]) = Base + offsets_[x.t]
       /\ \A x, y \in PtrSlots :
            (x.t = y.t) <=> (OffsetToPtr(buf[x.pos + 1]) = OffsetToPtr(buf[y.pos + 1]))
       /\ \A n, m \in Owned(g) : n # m => offsets_[n] # offsets_[m]

\* C2 witness: a produced buffer in which one object is the target of three
\* pointer slots and another object of a fourth.
SharedTargetSerialized ==
  /\ pc = "serialized"
  /\ \E x, y, z, u \in PtrSlots :
        /\ x.t = y.t /\ y.t = z.t /\ Cardinality({x.pos, y.pos, z.pos}) = 3
        /\ u.t # x.t

CycleTermination ==
  /\ <>(pc \in {"serialized", "failed"})
  /\ [](\A n \in Nodes : /\ emitCount[n] <= 1
                         /\ emitCount[n] = 1 => offsets_[n] # NotVisited)

\* C4 witness: a graph whose two nodes point at each other was serialized.
CyclicGraphSerialized ==
  /\ pc = "serialized"
  /\ g.next[1] = 2 /\ g.next[2] = 1
  /\ g.child[1] = 2 /\ g.vec = <<1>>

\* the unique handles reachable from the root, as (handle, pointee) pairs
Handles(gr) ==
  {<<"vec", i, gr.vec[i]>> : i \in 1..Len(gr.vec)}
    \cup {<<"child", n, gr.child[n]>> : n \in Owned(gr)}

SharedOwnership(gr) ==
  \E h1, h2 \in Handles(gr) : h1 # h2 /\ h1[3] = h2[3] /\ h1[3] # NullSrc

\* C9: when one pointee is reachable through two different unique handles,
\* serialize ends with a graph-shape violation and produces no buffer; in every
\* buffer it does produce, no two unique handle slots have the same pointee.
UniqueOwnershipEnforced ==
  /\ SharedOwnership(g) => pc \in {"start", "traverse", "failed"}
  /\ (pc = "failed" /\ rootType = "graph") => (err = "graph_shape" /\ SharedOwnership(g))
  /\ Produced =>
        \A x, y \in PtrSlots :
           (x.k = "unique" /\ y.k = "unique" /\ x.pos # y.pos) => x.t # y.t

\* C9 witness: serialize refused a graph in which a node's child_ handle owns
\* a node that nodes_ already owns.
SharedPointeeRefused ==
  /\ pc = "failed" /\ err = "graph_shape"
  /\ g.vec = <<1, 2>> /\ g.child[1] = 2

\* ---- the file adapters and deserialization

\* the pointer the deserialized graph must hold for the source pointer t
PtrOf(t) == IF t = NullSrc THEN NullPtr ELSE Base + offsets_[t]

\* the deserialized root at offset r equals the source root
RootEqual(r) ==
  IF rootType = "pod"
  THEN \A i \in 1..RootSize : mem[r + i] = RawRoot("pod", g)[i]
  ELSE /\ mem[r + VecOff + 2] = Len(g.vec)
       /\ mem[r + ScalarOff + 1] = RawRoot("graph", g)[ScalarOff + 1]
       /\ IF g.vec = <<>>
          THEN mem[r + VecOff + 1] = NullPtr
          ELSE LET blk == mem[r + VecOff + 1] - Base
               IN /\ blk >= 0 /\ blk + Len(g.vec) <= Len(mem)
                  /\ \A i \in 1..Len(g.vec) : mem[blk + i] = PtrOf(g.vec[i])

\* the copy of node n, at the offset recorded for it, equals node n
NodeEqual(n) ==
  LET o == offsets_[n]
  IN /\ o >= 0 /\ o + NodeSize <= Len(mem)
     /\ mem[o + NextOff + 1] = PtrOf(g.next[n])
     /\ mem[o + ChildOff + 1] = PtrOf(g.child[n])
     /\ mem[o + NameOff + 2] = g.len[n]
     /\ IF g.len[n] = 0
        THEN mem[o + NameOff + 1] = NullPtr
        ELSE LET p == mem[o + NameOff + 1] - Base
             IN /\ p >= 0 /\ p + g.len[n] <= Len(mem)
                /\ \A i \in 1..g.len[n] : mem[p + i] = Name(n, g.len[n])[i]

\* C1: deserializing the buffer serialize produced (the file write<Mode> wrote,
\* read back by read<T, Mode> with the same T and Mode) yields a graph equal to
\* the source graph: the root and every object have the same field values, null
\* pointers stay null, every other pointer is the address of the copy of its
\* source target, and different objects have disjoint copies.
RoundTrip ==
  (pc = "done" /\ ~tampered /\ expectType = rootType) =>
     /\ RootEqual(RootOffset(rmode))
     /\ \A n \in Owned(g) : NodeEqual(n)
     /\ \A n, m \in Owned(g) :
           n # m => (offsets_[n] + NodeSize <= offsets_[m] \/ offsets_[m] + NodeSize <= offsets_[n])

\* C1 witness: read returned a graph of two named nodes that point at each
\* other, written and read with the adapters' default mode.
RoundTripOfCycle ==
  /\ pc = "done" /\ adapter = "read" /\ ~tampered /\ expectType = rootType
  /\ useDefaults
  /\ g.vec = <<1, 2>> /\ g.next[1] = 2 /\ g.next[2] = 1
  /\ g.len[1] = 1 /\ g.len[2] = 1

Reading == pc \in {"validate", "deser", "done", "rejected", "fault"}
Traversing == pc \in {"deser", "done", "fault"} \/ (pc = "rejected" /\ err = "out_of_bounds")

\* C6: check(ptr, n) fails exactly when ptr < base or ptr + n > base + size; in
\* checked mode every pointer converted from a slot went through check for the
\* size of its referent, so deserialize ends with an out-of-bounds error exactly
\* when it met a referent not entirely inside the buffer, and whenever it
\* succeeds every pointer it resolved lies inside the buffer.
BoundsSafety ==
  (Traversing /\ Checked) =>
     /\ lastCheck.ok <=> ~(lastCheck.ptr < Base \/ lastCheck.ptr + lastCheck.n > Base + Len(mem))
     /\ (pc = "rejected" /\ err = "out_of_bounds") <=> ~lastCheck.ok
     /\ \A x \in resolved :
           /\ x.ptr >= Base /\ x.ptr + x.n <= Base + Len(mem)
           /\ mem[x.slot + 1] = x.ptr
     /\ pc = "done" =>
           \A i \in 1..Len(mem) :
              (mem[i] # file0[i]) => (\E x \in resolved : x.slot + 1 = i /\ x.ptr = mem[i])

\* C6 witness: a checked deserialize refused a slot that points below the buffer
\* after it had resolved other slots.
OutOfBoundsRefused ==
  /\ pc = "rejected" /\ err = "out_of_bounds" /\ Checked
  /\ lastCheck.ptr < Base
  /\ resolved # {}

\* C7: the envelope is validated before the traversal: with the version flag a
\* buffer whose leading type hash is not the expected root type's is rejected
\* with a version mismatch; with the integrity flag a buffer whose payload is
\* not the payload that was hashed, or whose trailing cell is not the hash of
\* its payload, is rejected with an integrity mismatch; a rejected buffer is
\* unchanged, no slot was converted; write, read and read_mmap have the same
\* default mode, and a file written with it passes the envelope validation of
\* a read with it for the same T.
EnvelopeValidation ==
  /\ useDefaults => (wmode = rmode /\ rmode = {WITH_STATIC_VERSION, WITH_INTEGRITY})
  /\ (Reading /\ pc # "validate") =>
       /\ (WITH_STATIC_VERSION \in rmode
             /\ SubSeq(file0, 1, VersionCells) # VersionHeader(expectType)) =>
             (pc = "rejected" /\ err = "version_mismatch")
       /\ (WITH_STATIC_VERSION \in rmode /\ expectType # rootType) =>
             (pc = "rejected" /\ err = "version_mismatch")
       /\ (WITH_INTEGRITY \in rmode /\ wmode = rmode /\ expectType = rootType
             /\ PayloadOf(file0, rmode) # PayloadOf(buf, wmode)) =>
             (pc = "rejected" /\ err = "integrity_mismatch")
       /\ (WITH_INTEGRITY \in rmode
             /\ (WITH_STATIC_VERSION \in rmode =>
                    SubSeq(file0, 1, VersionCells) = VersionHeader(expectType))
             /\ file0[Len(file0)] # ContentHash(PayloadOf(file0, rmode))) =>
             (pc = "rejected" /\ err = "integrity_mismatch")
       /\ (pc = "rejected" /\ err \in {"version_mismatch", "integrity_mismatch"}) =>
             (mem = file0 /\ file = file0 /\ resolved = {} /\ dvisited = {} /\ dstack = <<>>)
       /\ (useDefaults /\ ~tampered /\ expectType = rootType) =>
             err \notin {"version_mismatch", "integrity_mismatch"}

\* C7 witness: a file written with the default mode, one payload cell changed,
\* was rejected by the default read with an integrity mismatch.
TamperedPayloadRejected ==
  /\ pc = "rejected" /\ err = "integrity_mismatch"
  /\ useDefaults /\ tampered /\ rootType = "graph" /\ g.vec # <<>>
  /\ PayloadOf(file0, rmode) # PayloadOf(buf, wmode)

====
